---------------------------- MODULE Spec2Model ----------------------------
(***************************************************************************)
(* Model of the beamtime lifecycle of xpdAcq (src/xpdacq/beamtimeSetup.py): *)
(* _start_beamtime and _end_beamtime, run one after the other by a single  *)
(* operator in one interactive process.                                    *)
(*                                                                         *)
(* The file system is modelled by the home directory (xpdUser), the        *)
(* entries below it, the required folders outside it, the local archive    *)
(* (the renamed home directory) and the remote archive directory.          *)
(* Entries below a directory are kept as one flat set of paths; a          *)
(* directory lists as empty exactly when that set is empty.                *)
(*                                                                         *)
(* Every file-system or subprocess call that the code leaves unguarded may *)
(* succeed or raise; both outcomes are steps of the model.                 *)
(*                                                                         *)
(* The module also models, each under a specification of its own, the      *)
(* cache-backed mappings of src/xpdacq/redisdict.py (SpecDict), load_yaml  *)
(* (SpecYaml), start_xpdacq with load_beamtime (SpecReload) and            *)
(* regularize_dict_key of src/xpdacq/tools.py (SpecKeys).                  *)
(***************************************************************************)
EXTENDS Integers, Sequences, FiniteSets, TLC

VARIABLES
    flag,          \* glbl['_active_beamtime']: "absent", "true" or "false"
    homeExists,    \* os.path.exists(glbl_dict['home'])
    homeEntries,   \* the paths below the home directory
    extDirs,       \* the required folders outside the home directory that exist
    cwd,           \* the working directory of the process
    plans,         \* the scan plans created on the beamtime object of _start_beamtime
    pc,            \* the position of the running call ("idle" between calls)
    idx,           \* loop index of the for loops of _start_beamtime / _make_clean_env
    lastOp,        \* the last operation called: "none", "start" or "end"
    result,        \* how the last call ended
    ncalls,        \* number of calls made so far in this process
    bto,           \* the beamtime object _end_beamtime resolved
    files,         \* `files`, the listing of the home directory taken by _end_beamtime
    conf,          \* the operator's answer to the confirmation prompt
    msg,           \* the operator's last answer to the error-recovery prompt
    localExists,   \* the local archive directory (the renamed home directory) exists
    localEntries,  \* the paths below the local archive directory
    pending,       \* the paths the running shutil.rmtree pass has still to visit
    errPath,       \* the path handed to handle_error by the last step, if any
    rc,            \* the exit status of the rsync subprocess
    remoteExists,  \* the remote archive directory exists
    dKind,         \* the class of the cache-backed mapping: RedisDict or RedisChainMap
    dMaps,         \* its layers (self.maps; one layer for a RedisDict)
    dOp,           \* the last method called on it
    dArg,          \* the argument of that call (update: the other mapping; from_yaml: the document)
    dRes,          \* how that call ended: "ok" or the name of the error raised
    nflush,        \* the number of flush calls made during that call
    dOut,          \* what that call returned (to_yaml, from_yaml)
    known_uids,    \* load_yaml: the registry of reconstructed objects, by uid
    data,          \* load_yaml: the parsed content of the file of the last call
    yRes,          \* load_yaml: how the last call ended
    yObj,          \* load_yaml: the object the last call returned
    yamlDir,       \* start_xpdacq / load_beamtime: the definitions directory
    sxOut,         \* start_xpdacq: what the call printed, returned and reconstructed
    input_dict,    \* regularize_dict_key: the mapping, as the interpreter stores it
    orig_items,    \* regularize_dict_key: the items of the mapping before the call
    regRes         \* regularize_dict_key: how the call ended

vars == <<flag, homeExists, homeEntries, extDirs, cwd, plans, pc, idx, lastOp,
          result, ncalls, bto, files, conf, msg, localExists, localEntries,
          pending, errPath, rc, remoteExists,
          dKind, dMaps, dOp, dArg, dRes, nflush, dOut,
          known_uids, data, yRes, yObj, yamlDir, sxOut,
          input_dict, orig_items, regRes>>

lifeVars == <<flag, homeExists, homeEntries, extDirs, cwd, plans, pc, idx, lastOp,
              result, ncalls, bto, files, conf, msg, localExists, localEntries,
              pending, errPath, rc, remoteExists>>
dictVars == <<dKind, dMaps, dOp, dArg, dRes, nflush, dOut>>
yamlVars == <<known_uids, data, yRes, yObj>>
reloadVars == <<yamlDir, sxOut>>
keyVars == <<input_dict, orig_items, regRes>>

fsVars == <<homeExists, homeEntries, extDirs, localExists, localEntries, remoteExists>>
endVars == <<bto, files, conf, msg, pending, errPath, rc>>

(***************************************************************************)
(* Bounds                                                                  *)
(***************************************************************************)
\* number of _start_beamtime / _end_beamtime calls made in one process
MaxCalls == 3

(***************************************************************************)
(* Program constants and configuration                                     *)
(***************************************************************************)
\* EXPO_LIST without its last exposure time
EXPO_LIST_Short == <<50, 1, 10, 100, 300>>

\* exposure times of the pre-populated scan plans, in tenths of a second
\* (the source list is [5, 0.1, 1, 10, 30, 60] seconds)
EXPO_LIST == <<50, 1, 10, 100, 300, 600>>

\* the scan type `ct` imported from .beamtime
ct == "ct"

\* _required_info of _end_beamtime
_required_info == <<"bt_piLast", "bt_safN", "bt_uid">>

RequiredFields == {_required_info[i] : i \in DOMAIN _required_info}

\* glbl_dict["allfolders"]: the home directory itself, folders below it and
\* one folder beside it
HomeDir == "xpdUser"
HomeFolders == {"config_base", "user_analysis"}
ExtFolders == {"xpdConfig"}
allfolders == <<"xpdUser", "config_base", "user_analysis", "xpdConfig">>

\* the reference file copied to glbl_dict["usrAnalysis_dir"]
Ni24 == "user_analysis/Ni24.D"

\* what may lie below the home directory
HomeNames == HomeFolders \cup {Ni24, "userdata"}

\* answers an operator may type at the confirmation prompt
Answers == {"y", "Y", "n", ""}

\* answers an operator may type at the error-recovery prompt
Messages == {"", "k"}

NoAnswer == "none"

\* no path was handed to handle_error
NoPath == "none"

\* the local archive directory itself, as a path handed to handle_error
ArchiveDir == "."

\* exit statuses of rsync: success, partial transfer, timeout
RsyncCodes == {0, 23, 30}

\* rsync has not run
NoRc == -1

\* a beamtime object: bound is FALSE for None / a name that is not bound
NoBto == [bound |-> FALSE, fields |-> {}]
BtObjects == {NoBto} \cup {[bound |-> TRUE, fields |-> f] : f \in SUBSET RequiredFields}

(***************************************************************************)
(* File system helpers                                                     *)
(***************************************************************************)
\* os.path.isdir(d) for a folder of allfolders
DirExists(d) ==
    IF d = HomeDir THEN homeExists
    ELSE IF d \in HomeFolders THEN homeExists /\ d \in homeEntries
    ELSE d \in extDirs

\* os.listdir(home) is empty
Listing(exists, entries) == IF exists THEN entries ELSE {}


\* os.makedirs(d, exist_ok=True) for a folder of allfolders: the home
\* directory after the call, its entries and the outside folders
MakeDirs(d) ==
    [exists  |-> IF d = HomeDir \/ d \in HomeFolders THEN TRUE ELSE homeExists,
     entries |-> IF d \in HomeFolders THEN homeEntries \cup {d} ELSE homeEntries,
     ext     |-> IF d \in ExtFolders THEN extDirs \cup {d} ELSE extDirs]

(***************************************************************************)
(* _start_beamtime                                                         *)
(***************************************************************************)
\* StartGuard without the check of the listing
StartGuard_NoListing(f, exists, entries) ==
    IF f = "false" THEN "InvalidState"
    ELSE IF ~exists THEN "MissingEnvironment"
    ELSE "proceed"

\* StartGuard with the directory checks made before the flag is read
StartGuard_DirFirst(f, exists, entries) ==
    IF ~exists THEN "MissingEnvironment"
    ELSE IF Cardinality(Listing(exists, entries)) # 0 THEN "ConflictingState"
    ELSE IF f = "false" THEN "InvalidState"
    ELSE "proceed"

\* StartGuard refusing only "more than one" entry, as its message words it
StartGuard_MoreThanOne(f, exists, entries) ==
    IF f = "false" THEN "InvalidState"
    ELSE IF ~exists THEN "MissingEnvironment"
    ELSE IF Cardinality(Listing(exists, entries)) > 1 THEN "ConflictingState"
    ELSE "proceed"

\* the guards of _start_beamtime: the session-state flag, the existence of
\* the home directory and its listing, in the order of the code
StartGuard(f, exists, entries) ==
    IF f = "false" THEN "InvalidState"
    ELSE IF ~exists THEN "MissingEnvironment"
    ELSE IF Cardinality(Listing(exists, entries)) # 0 THEN "ConflictingState"
    ELSE "proceed"

\* a call of _start_beamtime, up to the end of its guards
StartCall ==
    /\ pc = "idle"
    /\ ncalls < MaxCalls
    /\ LET g == StartGuard(flag, homeExists, homeEntries) IN
         /\ lastOp' = "start"
         /\ ncalls' = ncalls + 1
         /\ IF g = "proceed"
              THEN pc' = "make_env" /\ result' = "running"
              ELSE pc' = "idle" /\ result' = g
    /\ idx' = 1
    /\ UNCHANGED <<flag, cwd, plans>>
    /\ UNCHANGED fsVars
    /\ UNCHANGED endVars

\* one iteration of the loop of _make_clean_env; os.makedirs may raise
MakeCleanEnv ==
    /\ pc = "make_env"
    /\ idx <= Len(allfolders)
    /\ \/ LET m == MakeDirs(allfolders[idx]) IN
            /\ homeExists' = m.exists
            /\ homeEntries' = m.entries
            /\ extDirs' = m.ext
            /\ idx' = idx + 1
            /\ pc' = IF idx = Len(allfolders) THEN "new_bt" ELSE "make_env"
            /\ UNCHANGED result
       \/ /\ pc' = "idle"
          /\ result' = "OSError"
          /\ UNCHANGED <<homeExists, homeEntries, extDirs, idx>>
    /\ UNCHANGED <<flag, cwd, plans, lastOp, ncalls, localExists, localEntries,
                   remoteExists>>
    /\ UNCHANGED endVars

\* the beamtime object is made, the process changes into the home directory,
\* Ni24.D is copied and the beamline configuration loaded; the copy and the
\* configuration loader may raise
NewBeamtime ==
    /\ pc = "new_bt"
    /\ plans' = <<>>
    /\ cwd' = "home"
    /\ \/ /\ homeEntries' = homeEntries \cup {Ni24}
          /\ pc' = "scanplans"
          /\ idx' = 1
          /\ UNCHANGED result
       \/ /\ pc' = "idle"
          /\ result' = "OSError"
          /\ UNCHANGED <<homeEntries, idx>>
       \/ /\ homeEntries' = homeEntries \cup {Ni24}
          /\ pc' = "idle"
          /\ result' = "ConfigError"
          /\ UNCHANGED idx
    /\ UNCHANGED <<flag, homeExists, extDirs, lastOp, ncalls, localExists,
                   localEntries, remoteExists>>
    /\ UNCHANGED endVars

\* one iteration of `for expo in EXPO_LIST: ScanPlan(bt, ct, expo)`
ScanPlanStep ==
    /\ pc = "scanplans"
    /\ idx <= Len(EXPO_LIST)
    /\ plans' = Append(plans, [scan |-> ct, expo |-> EXPO_LIST[idx]])
    /\ idx' = idx + 1
    /\ UNCHANGED <<flag, cwd, pc, lastOp, result, ncalls>>
    /\ UNCHANGED fsVars
    /\ UNCHANGED endVars

\* glbl['_active_beamtime'] = True; return bt
StartReturn ==
    /\ pc = "scanplans"
    /\ idx > Len(EXPO_LIST)
    /\ flag' = "true"
    /\ pc' = "idle"
    /\ result' = "bt"
    /\ UNCHANGED <<cwd, plans, idx, lastOp, ncalls>>
    /\ UNCHANGED fsVars
    /\ UNCHANGED endVars

(***************************************************************************)
(* _end_beamtime                                                           *)
(***************************************************************************)
\* `not bto`: None, or a beamtime mapping without entries
Falsy(b) == ~b.bound \/ b.fields = {}

\* _load_bt_info finds every required field
_load_bt_info(b) == \A i \in DOMAIN _required_info : _required_info[i] \in b.fields

\* EndEntry with the beamtime object resolved and read before the home
\* directory is checked
EndEntry_ResolveFirst(f, exists, entries, arg, ns) ==
    LET b == IF Falsy(arg) THEN ns ELSE arg IN
    IF ~b.bound THEN [res |-> "KeyError", bto |-> NoBto, flag |-> f]
    ELSE IF ~_load_bt_info(b) THEN [res |-> "MissingData", bto |-> b, flag |-> f]
    ELSE IF exists /\ Cardinality(Listing(exists, entries)) = 0
    THEN [res |-> "AlreadyEnded", bto |-> b, flag |-> f]
    ELSE [res |-> "proceed", bto |-> b, flag |-> "false"]

\* EndEntry with the flag set to false before the required information is read
EndEntry_FlagFirst(f, exists, entries, arg, ns) ==
    IF exists /\ Cardinality(Listing(exists, entries)) = 0
    THEN [res |-> "AlreadyEnded", bto |-> NoBto, flag |-> f]
    ELSE LET b == IF Falsy(arg) THEN ns ELSE arg IN
         IF ~b.bound THEN [res |-> "KeyError", bto |-> NoBto, flag |-> f]
         ELSE IF ~_load_bt_info(b)
              THEN [res |-> "MissingData", bto |-> b, flag |-> "false"]
         ELSE [res |-> "proceed", bto |-> b, flag |-> "false"]

\* _end_beamtime up to `glbl['_active_beamtime'] = False`: the check of the
\* home directory, the beamtime object (the argument, or the name bt of the
\* interactive session), the required information and the flag
EndEntry(f, exists, entries, arg, ns) ==
    IF exists /\ Cardinality(Listing(exists, entries)) = 0
    THEN [res |-> "AlreadyEnded", bto |-> NoBto, flag |-> f]
    ELSE LET b == IF Falsy(arg) THEN ns ELSE arg IN
         IF ~b.bound THEN [res |-> "KeyError", bto |-> NoBto, flag |-> f]
         ELSE IF ~_load_bt_info(b) THEN [res |-> "MissingData", bto |-> b, flag |-> f]
         ELSE [res |-> "proceed", bto |-> b, flag |-> "false"]

\* a call of _end_beamtime, up to the call of _tar_user_data
EndCall ==
    /\ pc = "idle"
    /\ ncalls < MaxCalls
    /\ \E arg \in BtObjects, ns \in BtObjects :
         LET e == EndEntry(flag, homeExists, homeEntries, arg, ns) IN
           /\ bto' = e.bto
           /\ flag' = e.flag
           /\ result' = IF e.res = "proceed" THEN "running" ELSE e.res
           /\ pc' = IF e.res = "proceed" THEN "tar_chdir"
                    ELSE IF e.res = "MissingData" THEN "exited"
                    ELSE "idle"
    /\ files' = IF homeExists THEN homeEntries ELSE files
    /\ lastOp' = "end"
    /\ ncalls' = ncalls + 1
    /\ conf' = NoAnswer
    /\ msg' = NoAnswer
    /\ errPath' = NoPath
    /\ rc' = NoRc
    /\ UNCHANGED <<cwd, plans, idx, pending>>
    /\ UNCHANGED fsVars

(***************************************************************************)
(* _tar_user_data                                                          *)
(***************************************************************************)
\* os.chdir(root_dir); when it raises, the finally block reads `src` before
\* it was assigned
TarChdir ==
    /\ pc = "tar_chdir"
    /\ \/ /\ cwd' = "base"
          /\ pc' = "tar_move"
          /\ UNCHANGED result
       \/ /\ pc' = "idle"
          /\ result' = "ChdirFailed"
          /\ UNCHANGED cwd
    /\ UNCHANGED <<flag, plans, idx, lastOp, ncalls>>
    /\ UNCHANGED fsVars
    /\ UNCHANGED endVars

\* the finally block of _tar_user_data, os.chdir(src): the working directory
\* after it
Finally(exists, dir) == IF exists THEN "home" ELSE dir

\* shutil.move(src, local_archive_name): the home directory becomes the local
\* archive; it raises when there is no home directory, and may raise anyway
TarMove ==
    /\ pc = "tar_move"
    /\ \/ /\ homeExists
          /\ ~localExists
          /\ localExists' = TRUE
          /\ localEntries' = homeEntries
          /\ homeExists' = FALSE
          /\ homeEntries' = {}
          /\ pc' = "tar_makedirs"
          /\ UNCHANGED <<result, cwd>>
       \/ /\ pc' = "idle"
          /\ result' = "MoveFailed"
          /\ cwd' = Finally(homeExists, cwd)
          /\ UNCHANGED <<homeExists, homeEntries, localExists, localEntries>>
    /\ UNCHANGED <<flag, plans, idx, lastOp, ncalls, extDirs, remoteExists>>
    /\ UNCHANGED endVars

\* os.makedirs(src): a fresh, empty home directory, or an error
TarMakedirs ==
    /\ pc = "tar_makedirs"
    /\ \/ /\ homeExists' = TRUE
          /\ homeEntries' = {}
          /\ pc' = "tar_remote"
          /\ UNCHANGED <<result, cwd>>
       \/ /\ pc' = "idle"
          /\ result' = "MakedirsFailed"
          /\ cwd' = Finally(homeExists, cwd)
          /\ UNCHANGED <<homeExists, homeEntries>>
    /\ UNCHANGED <<flag, plans, idx, lastOp, ncalls, extDirs, localExists,
                   localEntries, remoteExists>>
    /\ UNCHANGED endVars

\* os.makedirs(remote_archive_name, exist_ok=True)
TarRemote ==
    /\ pc = "tar_remote"
    /\ \/ /\ remoteExists' = TRUE
          /\ pc' = "tar_rsync"
          /\ UNCHANGED <<result, cwd>>
       \/ /\ pc' = "idle"
          /\ result' = "RemoteMakedirsFailed"
          /\ cwd' = Finally(homeExists, cwd)
          /\ UNCHANGED remoteExists
    /\ UNCHANGED <<flag, plans, idx, lastOp, ncalls, homeExists, homeEntries,
                   extDirs, localExists, localEntries>>
    /\ UNCHANGED endVars

\* subprocess.run without check=True: no exit status raises
CheckPasses_Unchecked(r) == TRUE

\* subprocess.run(..., check=True) raises CalledProcessError on a non-zero
\* exit status
CheckPasses(r) == r = 0

\* subprocess.run(['rsync', ...], check=True), then the finally block
TarRsync ==
    /\ pc = "tar_rsync"
    /\ cwd' = Finally(homeExists, cwd)
    /\ \E r \in RsyncCodes :
         /\ rc' = r
         /\ IF CheckPasses(r)
              THEN /\ pc' = "confirm"
                   /\ UNCHANGED result
              ELSE /\ pc' = "idle"
                   /\ result' = "RsyncFailed"
    /\ UNCHANGED <<flag, plans, idx, lastOp, ncalls, bto, files, conf, msg,
                   pending, errPath>>
    /\ UNCHANGED fsVars

(***************************************************************************)
(* _confirm_archive                                                        *)
(***************************************************************************)
\* Accepted taking the empty answer for a yes
Accepted_EmptyIsYes(c) == c \in {"y", "Y", ""}

\* conf in ("y", "Y")
Accepted(c) == c \in {"y", "Y"}

\* the operator answers the prompt; any answer but y or Y removes the remote
\* archive and exits
ConfirmArchive ==
    /\ pc = "confirm"
    /\ \E c \in Answers :
         /\ conf' = c
         /\ IF Accepted(c)
              THEN /\ pc' = "del_loop"
                   /\ UNCHANGED <<remoteExists, result>>
              ELSE /\ remoteExists' = FALSE
                   /\ pc' = "exited"
                   /\ result' = "Cancelled"
    /\ UNCHANGED <<flag, cwd, plans, idx, lastOp, ncalls, homeExists, homeEntries,
                   extDirs, localExists, localEntries, bto, files, msg, pending,
                   errPath, rc>>

(***************************************************************************)
(* _delete_local_archive and handle_error                                  *)
(***************************************************************************)
\* LoopContinues giving up once the operator has answered with nothing
LoopContinues_GiveUp(exists, m) == exists /\ m # ""

\* `while dir_path.is_dir()`
LoopContinues(exists, m) == exists

\* handle_error making the failing call once more whatever the answer
handle_error_AlwaysRetry(m, retryWorks) ==
    IF retryWorks THEN "removed" ELSE "raised"

\* handle_error: with an answer the failing call is made once more, and its
\* error, if any, is raised; without an answer the path is left
handle_error(m, retryWorks) ==
    IF m # "" THEN (IF retryWorks THEN "removed" ELSE "raised") ELSE "left"

\* the test of the while loop: another shutil.rmtree pass, or return
DeleteLoop ==
    /\ pc = "del_loop"
    /\ IF LoopContinues(localExists, msg)
         THEN /\ pc' = "del_rmtree"
              /\ pending' = localEntries
              /\ UNCHANGED result
         ELSE /\ pc' = "idle"
              /\ result' = "Ended"
              /\ UNCHANGED pending
    /\ errPath' = NoPath
    /\ UNCHANGED <<flag, cwd, plans, idx, lastOp, ncalls, bto, files, conf, msg, rc>>
    /\ UNCHANGED fsVars

\* shutil.rmtree removes one path below the local archive, or fails to and
\* calls handle_error
RmtreeEntry ==
    /\ pc = "del_rmtree"
    /\ \E e \in pending :
         /\ pending' = pending \ {e}
         /\ \/ /\ localEntries' = localEntries \ {e}
               /\ errPath' = NoPath
               /\ UNCHANGED <<pc, result, msg>>
            \/ \E m \in Messages, retryWorks \in BOOLEAN :
                 LET h == handle_error(m, retryWorks) IN
                   /\ msg' = m
                   /\ errPath' = e
                   /\ localEntries' = IF h = "removed" THEN localEntries \ {e}
                                      ELSE localEntries
                   /\ pc' = IF h = "raised" THEN "idle" ELSE pc
                   /\ result' = IF h = "raised" THEN "DeleteFailed" ELSE result
    /\ UNCHANGED <<flag, cwd, plans, idx, lastOp, ncalls, bto, files, conf, rc,
                   homeExists, homeEntries, extDirs, localExists, remoteExists>>

\* shutil.rmtree ends with os.rmdir of the local archive itself, which fails
\* while a path is left below it, and may fail anyway
RmtreeRmdir ==
    /\ pc = "del_rmtree"
    /\ pending = {}
    /\ \/ /\ localEntries = {}
          /\ localExists' = FALSE
          /\ pc' = "del_loop"
          /\ errPath' = NoPath
          /\ UNCHANGED <<result, msg>>
       \/ \E m \in Messages, retryWorks \in BOOLEAN :
            LET h == handle_error(m, retryWorks /\ localEntries = {}) IN
              /\ msg' = m
              /\ errPath' = ArchiveDir
              /\ localExists' = (h # "removed")
              /\ pc' = IF h = "raised" THEN "idle" ELSE "del_loop"
              /\ result' = IF h = "raised" THEN "DeleteFailed" ELSE result
    /\ UNCHANGED <<flag, cwd, plans, idx, lastOp, ncalls, bto, files, conf, pending,
                   rc, homeExists, homeEntries, extDirs, localEntries, remoteExists>>

(***************************************************************************)
(* redisdict.py: _RedisDictLike, RedisDict, RedisChainMap                  *)
(***************************************************************************)
\* keys and values of the mappings
Keys == {"a", "b"}
Vals == {1, 2}

\* the most layers a chain map is given
MaxLayers == 2

\* a layer: a mapping from some of the keys to values
Layers == UNION {[S -> Vals] : S \in SUBSET Keys}
EmptyLayer == [k \in {} |-> 1]

\* ChainMap.__init__: self.maps = list(maps) or [{}]
ChainMapInit(layers) == IF layers = <<>> THEN <<EmptyLayer>> ELSE layers

\* the instances: a RedisDict has one layer, a RedisChainMap at least one
Chains(n) == UNION {[1..m -> Layers] : m \in 1..n}

\* the names bound at the top of redisdict.py by its import statements
ModuleNames == {"abc", "os", "tempfile", "ChainMap", "json", "redis"}

\* evaluating a global name of redisdict.py
Bound(name) == name \in ModuleNames

\* d[k] = v, del d[k] and d.update(o) on a plain dict
Put(l, k, v) == [x \in DOMAIN l \cup {k} |-> IF x = k THEN v ELSE l[x]]
Remove(l, k) == [x \in DOMAIN l \ {k} |-> l[x]]
Merge(l, o) == [x \in DOMAIN l \cup DOMAIN o |-> IF x \in DOMAIN o THEN o[x] ELSE l[x]]

\* key in self: a dict looks in itself, a ChainMap in every layer
Contains(kind, maps, k) ==
    IF kind = "RedisDict" THEN k \in DOMAIN maps[1]
    ELSE \E i \in DOMAIN maps : k \in DOMAIN maps[i]

\* the outcome of a call: the layers after it, how it ended, and the number
\* of flush calls it made
Outcome(maps, res, n) == [maps |-> maps, res |-> res, nflush |-> n]

\* _RedisDictLike.__setitem__: the container's __setitem__ (a ChainMap
\* writes to its first layer), then flush
__setitem__(kind, maps, k, v) ==
    Outcome([maps EXCEPT ![1] = Put(@, k, v)], "ok", 1)

\* _RedisDictLike.__delitem__: the container's __delitem__ raises KeyError
\* for a key that is not in the (first) layer, else flush
__delitem__(kind, maps, k) ==
    IF k \in DOMAIN maps[1]
    THEN Outcome([maps EXCEPT ![1] = Remove(@, k)], "ok", 1)
    ELSE Outcome(maps, "KeyError", 0)

\* _RedisDictLike.clear
clear(kind, maps) == Outcome([maps EXCEPT ![1] = EmptyLayer], "ok", 1)

\* _RedisDictLike.pop(key)
pop(kind, maps, k) ==
    IF k \in DOMAIN maps[1]
    THEN Outcome([maps EXCEPT ![1] = Remove(@, k)], "ok", 1)
    ELSE Outcome(maps, "KeyError", 0)

\* _RedisDictLike.popitem, k being the item the (first) layer gives up
popitem(kind, maps, k) ==
    IF DOMAIN maps[1] = {}
    THEN Outcome(maps, "KeyError", 0)
    ELSE Outcome([maps EXCEPT ![1] = Remove(@, k)], "ok", 1)

\* _RedisDictLike.update: dict.update writes the items itself; ChainMap has
\* no update of its own, and MutableMapping.update assigns every item through
\* self[key] = value, which is _RedisDictLike.__setitem__ and flushes
update(kind, maps, other) ==
    LET merged == [maps EXCEPT ![1] = Merge(@, other)] IN
    IF kind = "RedisDict"
    THEN Outcome(merged, "ok", 1)
    ELSE Outcome(merged, "ok", Cardinality(DOMAIN other) + 1)

\* _RedisDictLike.setdefault: dict.setdefault writes the item itself;
\* MutableMapping.setdefault assigns a missing key through self[key] = default
setdefault(kind, maps, k, v) ==
    IF Contains(kind, maps, k) THEN Outcome(maps, "ok", 1)
    ELSE IF kind = "RedisDict"
    THEN Outcome([maps EXCEPT ![1] = Put(@, k, v)], "ok", 1)
    ELSE Outcome(__setitem__(kind, maps, k, v).maps, "ok",
                 __setitem__(kind, maps, k, v).nflush + 1)

\* _RedisDictLike.copy
copy(kind, maps) == Outcome(maps, "NotImplementedError", 0)

\* documents: what yaml.unsafe_load gives for a text
NoDoc == [kind |-> "none", layers |-> <<>>]
ListDoc(layers) == [kind |-> "list", layers |-> layers]
Docs == {NoDoc, [kind |-> "dict", layers |-> <<>>], [kind |-> "scalar", layers |-> <<>>]}
          \cup {ListDoc(c) : c \in Chains(MaxLayers)}

\* no instance
NoInstance == [made |-> FALSE, layers |-> <<>>, filepathSet |-> FALSE]

\* RedisChainMap.to_yaml: yaml.dump of the list of the layers; the name yaml
\* is looked up when the method runs
to_yaml(maps) ==
    IF ~Bound("yaml") THEN [res |-> "NameError", doc |-> NoDoc]
    ELSE [res |-> "ok", doc |-> ListDoc(maps)]

\* RedisChainMap.from_yaml(f): doc is what f parses to, isStr whether f is a
\* plain string
from_yaml(doc, isStr) ==
    IF ~Bound("yaml") THEN [res |-> "NameError", inst |-> NoInstance]
    ELSE IF doc.kind \notin {"none", "list"}
    THEN [res |-> "TypeError", inst |-> NoInstance]
    ELSE [res |-> "ok",
          inst |-> [made |-> TRUE,
                    layers |-> ChainMapInit(IF doc.kind = "none" THEN <<>> ELSE doc.layers),
                    filepathSet |-> ~isStr]]

\* the calls
D_setitem ==
    \E k \in Keys, v \in Vals :
      LET o == __setitem__(dKind, dMaps, k, v) IN
        /\ dOp' = "__setitem__" /\ dArg' = EmptyLayer /\ dOut' = NoInstance
        /\ dMaps' = o.maps /\ dRes' = o.res /\ nflush' = o.nflush
        /\ UNCHANGED dKind

D_delitem ==
    \E k \in Keys :
      LET o == __delitem__(dKind, dMaps, k) IN
        /\ dOp' = "__delitem__" /\ dArg' = EmptyLayer /\ dOut' = NoInstance
        /\ dMaps' = o.maps /\ dRes' = o.res /\ nflush' = o.nflush
        /\ UNCHANGED dKind

D_clear ==
    LET o == clear(dKind, dMaps) IN
      /\ dOp' = "clear" /\ dArg' = EmptyLayer /\ dOut' = NoInstance
      /\ dMaps' = o.maps /\ dRes' = o.res /\ nflush' = o.nflush
      /\ UNCHANGED dKind

D_pop ==
    \E k \in Keys :
      LET o == pop(dKind, dMaps, k) IN
        /\ dOp' = "pop" /\ dArg' = EmptyLayer /\ dOut' = NoInstance
        /\ dMaps' = o.maps /\ dRes' = o.res /\ nflush' = o.nflush
        /\ UNCHANGED dKind

D_popitem ==
    \E k \in (IF DOMAIN dMaps[1] = {} THEN Keys ELSE DOMAIN dMaps[1]) :
      LET o == popitem(dKind, dMaps, k) IN
        /\ dOp' = "popitem" /\ dArg' = EmptyLayer /\ dOut' = NoInstance
        /\ dMaps' = o.maps /\ dRes' = o.res /\ nflush' = o.nflush
        /\ UNCHANGED dKind

D_update ==
    \E other \in Layers :
      LET o == update(dKind, dMaps, other) IN
        /\ dOp' = "update" /\ dArg' = other /\ dOut' = NoInstance
        /\ dMaps' = o.maps /\ dRes' = o.res /\ nflush' = o.nflush
        /\ UNCHANGED dKind

D_setdefault ==
    \E k \in Keys, v \in Vals :
      LET o == setdefault(dKind, dMaps, k, v) IN
        /\ dOp' = "setdefault" /\ dArg' = EmptyLayer /\ dOut' = NoInstance
        /\ dMaps' = o.maps /\ dRes' = o.res /\ nflush' = o.nflush
        /\ UNCHANGED dKind

D_copy ==
    LET o == copy(dKind, dMaps) IN
      /\ dOp' = "copy" /\ dArg' = EmptyLayer /\ dOut' = NoInstance
      /\ dMaps' = o.maps /\ dRes' = o.res /\ nflush' = o.nflush
      /\ UNCHANGED dKind

D_to_yaml ==
    /\ dKind = "RedisChainMap"
    /\ LET o == to_yaml(dMaps) IN
         /\ dOp' = "to_yaml" /\ dArg' = EmptyLayer
         /\ dOut' = [made |-> o.res = "ok", layers |-> o.doc.layers, filepathSet |-> FALSE]
         /\ dRes' = o.res /\ nflush' = 0
         /\ UNCHANGED <<dKind, dMaps>>

D_from_yaml ==
    /\ dKind = "RedisChainMap"
    /\ \E doc \in Docs, isStr \in BOOLEAN :
         LET o == from_yaml(doc, isStr) IN
           /\ dOp' = "from_yaml"
           /\ dArg' = [doc |-> doc, isStr |-> isStr]
           /\ dOut' = o.inst
           /\ dRes' = o.res /\ nflush' = 0
           /\ UNCHANGED <<dKind, dMaps>>

\* no mapping in use
DictIdle ==
    /\ dKind = "none"
    /\ dMaps = <<>>
    /\ dOp = "none"
    /\ dArg = EmptyLayer
    /\ dRes = "none"
    /\ nflush = 0
    /\ dOut = NoInstance

\* a RedisDict or a RedisChainMap, just constructed
DictInit ==
    /\ dKind \in {"RedisDict", "RedisChainMap"}
    /\ dMaps \in Chains(IF dKind = "RedisDict" THEN 1 ELSE MaxLayers)
    /\ dOp = "none"
    /\ dArg = EmptyLayer
    /\ dRes = "none"
    /\ nflush = 0
    /\ dOut = NoInstance

(***************************************************************************)
(* load_yaml                                                               *)
(***************************************************************************)
\* the most elements a parsed list holds
MaxElems == 3

\* the uids written in the files
BtUids == {"bt1", "bt2"}
SaUids == {"sa1"}
SpUids == {"sp1"}
NoUid == "none"

\* a parsed mapping with at most one of the uid keys, or a parsed number
Elem(type, key, uid) == [type |-> type, key |-> key, uid |-> uid]
Mappings == {Elem("dict", "none", NoUid)}
              \cup {Elem("dict", "bt_uid", u) : u \in BtUids}
              \cup {Elem("dict", "sa_uid", u) : u \in SaUids}
              \cup {Elem("dict", "sp_uid", u) : u \in SpUids}
Elements == Mappings \cup {Elem("int", "none", NoUid)}

\* what yaml.unsafe_load(f) returns: None for an empty document, a scalar,
\* a mapping, or a list
YDoc(kind, m, elems) == [kind |-> kind, m |-> m, elems |-> elems]
EmptyDocument == YDoc("none", Elem("int", "none", NoUid), <<>>)
ScalarDocument == YDoc("scalar", Elem("int", "none", NoUid), <<>>)
YDocs == {EmptyDocument, ScalarDocument}
           \cup {YDoc("dict", m, <<>>) : m \in Mappings}
           \cup UNION {{YDoc("list", Elem("int", "none", NoUid), l) : l \in [1..n -> Elements]}
                        : n \in 0..MaxElems}

\* the reconstructed objects: the class, the uid, and the beamtime that
\* known_uids.get returned (None when the uid is not registered)
None == "None"
Obj(cls, uid, beamtime) == [cls |-> cls, uid |-> uid, beamtime |-> beamtime]
NoObj == Obj("none", NoUid, None)
Get(known, uid) == IF uid \in DOMAIN known THEN uid ELSE None
NoUids == [u \in {} |-> NoObj]

\* "sa_uid" in x and x["bt_uid"], for an element x of the parsed list
InElem(key, x) == IF x.type = "int" THEN "TypeError"
                  ELSE IF x.key = key THEN "True" ELSE "False"
Subscript(x, key) == IF x.type = "int" THEN "TypeError"
                     ELSE IF x.key = key THEN "ok" ELSE "KeyError"

\* the outcome of load_yaml: how it ended, the object returned, the registry
YOut(res, obj, known) == [res |-> res, obj |-> obj, known |-> known]

\* the sample and scan-plan branches: the owning beamtime is looked up by
\* data[1]["bt_uid"], the object is registered under its own uid
Linked(d, known, cls, key) ==
    IF Len(d.elems) < 2 THEN YOut("IndexError", NoObj, known)
    ELSE IF Subscript(d.elems[2], "bt_uid") # "ok"
         THEN YOut(Subscript(d.elems[2], "bt_uid"), NoObj, known)
    ELSE IF Subscript(d.elems[1], key) # "ok"
         THEN YOut(Subscript(d.elems[1], key), NoObj, known)
    ELSE LET obj == Obj(cls, d.elems[1].uid, Get(known, d.elems[2].uid)) IN
           YOut("ok", obj, Put(known, obj.uid, obj))

\* load_yaml(f, known_uids), on the parsed content d of f
load_yaml(d, known) ==
    IF d.kind = "dict" /\ d.m.key = "bt_uid"
    THEN LET obj == Obj("Beamtime", d.m.uid, None) IN
           YOut("ok", obj, Put(known, obj.uid, obj))
    ELSE IF d.kind = "list" /\ Len(d.elems) = 0 THEN YOut("IndexError", NoObj, known)
    ELSE IF d.kind = "list" /\ InElem("sa_uid", d.elems[1]) = "TypeError"
         THEN YOut("TypeError", NoObj, known)
    ELSE IF d.kind = "list" /\ InElem("sa_uid", d.elems[1]) = "True"
         THEN Linked(d, known, "Sample", "sa_uid")
    ELSE IF d.kind = "list" /\ Len(d.elems) = 2
         THEN Linked(d, known, "ScanPlan", "sp_uid")
    ELSE YOut("ValueError", NoObj, known)

\* one call of load_yaml on a file, with the registry of the caller
LoadYaml ==
    \E d \in YDocs :
      LET o == load_yaml(d, known_uids) IN
        /\ data' = d
        /\ yRes' = o.res
        /\ yObj' = o.obj
        /\ known_uids' = o.known

\* no file loaded yet: the registry is empty
YamlIdle ==
    /\ known_uids = NoUids
    /\ data = EmptyDocument
    /\ yRes = "none"
    /\ yObj = NoObj

(***************************************************************************)
(* start_xpdacq and load_beamtime                                          *)
(***************************************************************************)
\* names in the definitions directory (glbl_dict["yaml_dir"]), as characters
bt_bt_yml == <<"b", "t", "_", "b", "t", ".", "y", "m", "l">>
bt_bt_yml_backup == <<"b", "t", "_", "b", "t", ".", "y", "m", "l", "~">>
glbl_yml == <<"g", "l", "b", "l", ".", "y", "m", "l">>
bt_old == <<"b", "t", "_", "o", "l", "d">>
BtPrefix == <<"b", "t">>

\* the entries the definitions directory may hold besides samples/ and
\* scanplans/: regular files and one directory
DirEntry(name, isfile) == [name |-> name, isfile |-> isfile]
YamlDirEntries == {DirEntry(bt_bt_yml, TRUE), DirEntry(bt_bt_yml_backup, TRUE),
                   DirEntry(glbl_yml, TRUE), DirEntry(bt_old, FALSE)}

\* file names below scanplans/ and samples/; a file holds the uid of its name
ScanplanFns == {"sp1", "sp2", "sp3"}
SampleFns == {"sa1", "sa2"}

\* the sequences without repetition over a set: the orders a directory
\* listing may come in, and the names an ordering side-file may record
Injective(s) == \A i, j \in DOMAIN s : s[i] = s[j] => i = j
Perms(S) == UNION {{s \in [1..n -> S] : Injective(s)} : n \in 0..Cardinality(S)}

\* an ordering side-file: whether it exists, and list(order.values())
OrderFile(isfile, values) == [isfile |-> isfile, values |-> values]
OrderFiles(S) == {OrderFile(FALSE, <<>>)} \cup {OrderFile(TRUE, v) : v \in Perms(S)}

\* f.startswith(p)
startswith(f, p) == Len(f) >= Len(p) /\ SubSeq(f, 1, Len(p)) = p

\* list.index(x): the first position of x, ValueError when there is none
Has(values, x) == \E i \in DOMAIN values : values[i] = x
Index(values, x) == CHOOSE i \in DOMAIN values :
                        values[i] = x /\ \A j \in 1..(i - 1) : values[j] # x

\* sorted(fns, key=values.index): a stable insertion sort on the key
RECURSIVE InsertByKey(_, _, _)
InsertByKey(s, fn, values) ==
    IF s = <<>> THEN <<fn>>
    ELSE IF Index(values, fn) < Index(values, Head(s)) THEN <<fn>> \o s
    ELSE <<Head(s)>> \o InsertByKey(Tail(s), fn, values)
RECURSIVE sorted(_, _)
sorted(fns, values) ==
    IF fns = <<>> THEN <<>>
    ELSE InsertByKey(sorted(SubSeq(fns, 1, Len(fns) - 1), values), fns[Len(fns)], values)

\* the content of the files the program wrote
BeamtimeFile == YDoc("dict", Elem("dict", "bt_uid", "bt1"), <<>>)
ObjectFile(key, fn) ==
    YDoc("list", Elem("int", "none", NoUid),
         <<Elem("dict", key, fn), Elem("dict", "bt_uid", "bt1")>>)

\* the for loop over the sorted file names: load_yaml on each, in order
RECURSIVE LoadEach(_, _, _)
LoadEach(fns, key, known) ==
    IF fns = <<>> THEN [known |-> known, loaded |-> <<>>]
    ELSE LET o == load_yaml(ObjectFile(key, Head(fns)), known)
             r == LoadEach(Tail(fns), key, o.known) IN
           [known |-> r.known, loaded |-> <<o.obj.uid>> \o r.loaded]

\* one category of load_beamtime: nothing without the side-file; ValueError
\* from list.index when a listed file is not recorded in it
Category(fns, order, key, known) ==
    IF ~order.isfile THEN [res |-> "ok", known |-> known, loaded |-> <<>>]
    ELSE IF \E i \in DOMAIN fns : ~Has(order.values, fns[i])
         THEN [res |-> "ValueError", known |-> known, loaded |-> <<>>]
    ELSE LET r == LoadEach(sorted(fns, order.values), key, known) IN
           [res |-> "ok", known |-> r.known, loaded |-> r.loaded]

\* what a call prints, returns and reconstructs
SxOut(res, printed, ret, scanplans, samples) ==
    [res |-> res, printed |-> printed, ret |-> ret,
     scanplans |-> scanplans, samples |-> samples]
NoSxOut == SxOut("none", "none", NoObj, <<>>, <<>>)

\* load_beamtime(): bt_bt.yml, then the scan plans, then the samples
load_beamtime(dir) ==
    IF DirEntry(bt_bt_yml, TRUE) \notin dir.entries
    THEN SxOut("FileNotFoundError", "none", NoObj, <<>>, <<>>)
    ELSE LET b == load_yaml(BeamtimeFile, NoUids)
             sp == Category(dir.scanplan_fns, dir.scanplan_order, "sp_uid", b.known) IN
           IF sp.res # "ok" THEN SxOut(sp.res, "none", NoObj, <<>>, <<>>)
           ELSE LET sa == Category(dir.sample_fns, dir.sample_order, "sa_uid", sp.known) IN
                  IF sa.res # "ok" THEN SxOut(sa.res, "none", NoObj, sp.loaded, <<>>)
                  ELSE SxOut("ok", "none", b.obj, sp.loaded, sa.loaded)

\* start_xpdacq()
start_xpdacq(dir) ==
    IF ~dir.exists THEN SxOut("ok", "no_beamtime", NoObj, <<>>, <<>>)
    ELSE LET bt_list == {e \in dir.entries : startswith(e.name, BtPrefix) /\ e.isfile} IN
           IF Cardinality(bt_list) = 1 THEN load_beamtime(dir)
           ELSE IF Cardinality(bt_list) > 1 THEN SxOut("ok", "warning", NoObj, <<>>, <<>>)
           ELSE SxOut("ok", "no_beamtime", NoObj, <<>>, <<>>)

\* one call of start_xpdacq in a fresh process
StartXpdacq ==
    /\ sxOut = NoSxOut
    /\ sxOut' = start_xpdacq(yamlDir)
    /\ UNCHANGED yamlDir

\* the definitions directory, as any earlier session and the operator left it
YamlDir(exists, entries, sp, spo, sa, sao) ==
    [exists |-> exists, entries |-> entries, scanplan_fns |-> sp,
     scanplan_order |-> spo, sample_fns |-> sa, sample_order |-> sao]
NoYamlDir == YamlDir(FALSE, {}, <<>>, OrderFile(FALSE, <<>>), <<>>, OrderFile(FALSE, <<>>))
YamlDirs == {NoYamlDir} \cup
            {YamlDir(TRUE, e, sp, spo, sa, sao) :
               e \in SUBSET YamlDirEntries, sp \in Perms(ScanplanFns),
               spo \in OrderFiles(ScanplanFns), sa \in Perms(SampleFns),
               sao \in OrderFiles(SampleFns)}

ReloadInit ==
    /\ yamlDir \in YamlDirs
    /\ sxOut = NoSxOut

\* start_xpdacq not in use
ReloadIdle ==
    /\ yamlDir = NoYamlDir
    /\ sxOut = NoSxOut

(***************************************************************************)
(* tools.py: regularize_dict_key                                           *)
(*                                                                         *)
(* The function pops and re-inserts keys of input_dict while it iterates   *)
(* over input_dict.items(), so what it does depends on how the interpreter *)
(* stores a dict and walks it.  The dict is modelled as CPython (3.6 and   *)
(* later) stores it: an array of entries in insertion order, where a       *)
(* deleted entry leaves a hole, an inserted key is appended, and the array *)
(* is compacted when no usable slot is left; the iterator walks the array  *)
(* by index and (3.8 and later) raises RuntimeError when it meets more     *)
(* entries than the dict had keys, or when the number of keys changed.     *)
(***************************************************************************)
\* the most keys of the mapping handed to regularize_dict_key
MaxKeys == 4

\* target_chr and replace_chr of the call
target_chr == "."
replace_chr == "_"

\* the keys, as characters
KeyNames == {<<"a">>, <<"b">>, <<"a", ".", "b">>, <<"c", ".", "d">>, <<"a", "_", "b">>}

\* a value as written in a literal: a number or a nested mapping (its items)
Item(k, v) == [k |-> k, v |-> v]
Lit(isDict, n, items) == [isDict |-> isDict, n |-> n, items |-> items]
LitValues == {Lit(FALSE, 1, <<>>), Lit(TRUE, 0, <<>>),
              Lit(TRUE, 0, <<Item(<<"c", ".", "d">>, Lit(FALSE, 1, <<>>))>>)}
DistinctKeys(items) == \A i, j \in DOMAIN items : items[i].k = items[j].k => i = j
ItemSeqs == UNION {{s \in [1..n -> {Item(k, v) : k \in KeyNames, v \in LitValues}] :
                      DistinctKeys(s)} : n \in 0..MaxKeys}

\* CPython: the smallest table has 8 slots, two thirds of a table are usable
PyDict_MINSIZE == 8
USABLE_FRACTION(n) == (2 * n) \div 3
RECURSIVE keysize(_, _)
keysize(size, minsize) == IF size >= minsize THEN size ELSE keysize(2 * size, minsize)

\* a dict: its entries array and the number of usable slots left
Dict(entries, usable) == [entries |-> entries, usable |-> usable]
NoDict == Dict(<<>>, 0)
NewDict == Dict(<<>>, USABLE_FRACTION(PyDict_MINSIZE))
Value(isDict, n, d) == [isDict |-> isDict, n |-> n, d |-> d]
Entry(live, k, v) == [live |-> live, k |-> k, v |-> v]
Hole == Entry(FALSE, <<>>, Value(FALSE, 0, NoDict))
IsLive(e) == e.live
used(d) == Cardinality({i \in DOMAIN d.entries : d.entries[i].live})
lookup(d, k) == IF \E i \in DOMAIN d.entries : d.entries[i].live /\ d.entries[i].k = k
                THEN CHOOSE i \in DOMAIN d.entries : d.entries[i].live /\ d.entries[i].k = k
                ELSE 0

\* d.pop(k) of a key that is there: the entry becomes a hole
dict_pop(d, k) == Dict([d.entries EXCEPT ![lookup(d, k)] = Hole], d.usable)

\* the resize before an insertion that finds no usable slot: the live
\* entries are copied, in order, into a table sized for three times as many
resize(d) == Dict(SelectSeq(d.entries, IsLive),
                  USABLE_FRACTION(keysize(PyDict_MINSIZE, 3 * used(d))) - used(d))

\* d[k] = v: an existing key keeps its entry, a new key is appended
dict_setitem(d, k, v) ==
    IF lookup(d, k) # 0 THEN Dict([d.entries EXCEPT ![lookup(d, k)].v = v], d.usable)
    ELSE LET t == IF d.usable <= 0 THEN resize(d) ELSE d IN
           Dict(Append(t.entries, Entry(TRUE, k, v)), t.usable - 1)

\* the dict a literal builds
RECURSIVE dict_from(_)
dict_from(items) ==
    IF items = <<>> THEN NewDict
    ELSE LET last == items[Len(items)]
             v == IF last.v.isDict THEN Value(TRUE, 0, dict_from(last.v.items))
                  ELSE Value(FALSE, last.v.n, NoDict) IN
           dict_setitem(dict_from(SubSeq(items, 1, Len(items) - 1)), last.k, v)

\* k.replace(target_chr, replace_chr)
replace(k, t, r) == [i \in DOMAIN k |-> IF k[i] = t THEN r ELSE k[i]]

\* the next live entry at or after position pos, 0 when there is none
NextLive(d, pos) ==
    IF \E i \in pos..Len(d.entries) : d.entries[i].live
    THEN CHOOSE i \in pos..Len(d.entries) :
           d.entries[i].live /\ \A j \in pos..(i - 1) : ~d.entries[j].live
    ELSE 0

\* the for loop of regularize_dict_key from iterator position pos on, with
\* len items left to hand out and used0 keys when the iteration began
RegOut(d, res) == [d |-> d, res |-> res]
RECURSIVE Loop(_, _, _, _, _, _)
Loop(d, pos, len, used0, t, r) ==
    IF used(d) # used0 THEN RegOut(d, "RuntimeError")
    ELSE IF NextLive(d, pos) = 0 THEN RegOut(d, "ok")
    ELSE IF len = 0 THEN RegOut(d, "RuntimeError")
    ELSE LET i == NextLive(d, pos)
             k == d.entries[i].k
             v == d.entries[i].v
             clean_k == replace(k, t, r)
             d1 == dict_setitem(dict_pop(d, k), clean_k, v) IN
           IF v.isDict
           THEN LET sub == Loop(v.d, 1, used(v.d), used(v.d), t, r)
                    d2 == dict_setitem(d1, clean_k, Value(TRUE, 0, sub.d)) IN
                  IF sub.res # "ok" THEN RegOut(d2, sub.res)
                  ELSE Loop(d2, i + 1, len - 1, used0, t, r)
           ELSE Loop(d1, i + 1, len - 1, used0, t, r)

\* regularize_dict_key(input_dict, target_chr, replace_chr)
regularize_dict_key(d, t, r) == Loop(d, 1, used(d), used(d), t, r)

\* one call of regularize_dict_key(input_dict, ".", "_")
Regularize ==
    /\ regRes = "none"
    /\ LET o == regularize_dict_key(input_dict, target_chr, replace_chr) IN
         /\ input_dict' = o.d
         /\ regRes' = o.res
    /\ UNCHANGED orig_items

\* the mapping a dict stands for, with its nested mappings
RECURSIVE AsMap(_)
AsMap(d) ==
    LET live == {i \in DOMAIN d.entries : d.entries[i].live} IN
      [k \in {d.entries[i].k : i \in live} |->
         LET v == d.entries[lookup(d, k)].v IN
           IF v.isDict THEN [isDict |-> TRUE, n |-> 0, m |-> AsMap(v.d)]
           ELSE [isDict |-> FALSE, n |-> v.n, m |-> AsMap(NoDict)]]

\* a mapping built by a literal, not yet regularized
KeysInit ==
    /\ orig_items \in ItemSeqs
    /\ input_dict = dict_from(orig_items)
    /\ regRes = "none"

\* regularize_dict_key not in use
KeysIdle ==
    /\ orig_items = <<>>
    /\ input_dict = NewDict
    /\ regRes = "none"

(***************************************************************************)
(* The process                                                             *)
(***************************************************************************)
\* a fresh interactive process: the flag is not set; the home directory is
\* missing, empty, or holds what an earlier session left
LifeInit ==
    /\ flag = "absent"
    /\ homeExists \in BOOLEAN
    /\ homeEntries \in SUBSET HomeNames
    /\ (~homeExists => homeEntries = {})
    /\ (Ni24 \in homeEntries => "user_analysis" \in homeEntries)
    /\ extDirs \in SUBSET ExtFolders
    /\ cwd = "elsewhere"
    /\ plans = <<>>
    /\ pc = "idle"
    /\ idx = 1
    /\ lastOp = "none"
    /\ result = "none"
    /\ ncalls = 0
    /\ bto = NoBto
    /\ files = {}
    /\ conf = NoAnswer
    /\ msg = NoAnswer
    /\ localExists = FALSE
    /\ localEntries = {}
    /\ pending = {}
    /\ errPath = NoPath
    /\ rc = NoRc
    /\ remoteExists = FALSE

\* the lifecycle with no call made and no directory on disk
LifeIdle ==
    /\ LifeInit
    /\ ~homeExists
    /\ extDirs = {}

\* the variables the lifecycle calls leave alone
otherVars == <<dictVars, yamlVars, reloadVars, keyVars>>

\* the beamtime lifecycle: _start_beamtime and _end_beamtime
Init ==
    /\ LifeInit
    /\ DictIdle
    /\ YamlIdle
    /\ ReloadIdle
    /\ KeysIdle

Next ==
    \/ StartCall /\ UNCHANGED otherVars
    \/ MakeCleanEnv /\ UNCHANGED otherVars
    \/ NewBeamtime /\ UNCHANGED otherVars
    \/ ScanPlanStep /\ UNCHANGED otherVars
    \/ StartReturn /\ UNCHANGED otherVars
    \/ EndCall /\ UNCHANGED otherVars
    \/ TarChdir /\ UNCHANGED otherVars
    \/ TarMove /\ UNCHANGED otherVars
    \/ TarMakedirs /\ UNCHANGED otherVars
    \/ TarRemote /\ UNCHANGED otherVars
    \/ TarRsync /\ UNCHANGED otherVars
    \/ ConfirmArchive /\ UNCHANGED otherVars
    \/ DeleteLoop /\ UNCHANGED otherVars
    \/ RmtreeEntry /\ UNCHANGED otherVars
    \/ RmtreeRmdir /\ UNCHANGED otherVars

Spec == Init /\ [][Next]_vars

\* the cache-backed mappings: one instance and the calls made on it
InitDict ==
    /\ LifeIdle
    /\ DictInit
    /\ YamlIdle
    /\ ReloadIdle
    /\ KeysIdle

NextDict ==
    \/ D_setitem /\ UNCHANGED <<lifeVars, yamlVars, reloadVars, keyVars>>
    \/ D_delitem /\ UNCHANGED <<lifeVars, yamlVars, reloadVars, keyVars>>
    \/ D_clear /\ UNCHANGED <<lifeVars, yamlVars, reloadVars, keyVars>>
    \/ D_pop /\ UNCHANGED <<lifeVars, yamlVars, reloadVars, keyVars>>
    \/ D_popitem /\ UNCHANGED <<lifeVars, yamlVars, reloadVars, keyVars>>
    \/ D_update /\ UNCHANGED <<lifeVars, yamlVars, reloadVars, keyVars>>
    \/ D_setdefault /\ UNCHANGED <<lifeVars, yamlVars, reloadVars, keyVars>>
    \/ D_copy /\ UNCHANGED <<lifeVars, yamlVars, reloadVars, keyVars>>
    \/ D_to_yaml /\ UNCHANGED <<lifeVars, yamlVars, reloadVars, keyVars>>
    \/ D_from_yaml /\ UNCHANGED <<lifeVars, yamlVars, reloadVars, keyVars>>

SpecDict == InitDict /\ [][NextDict]_vars

\* load_yaml, called on one file after the other with one registry
InitYaml ==
    /\ LifeIdle
    /\ DictIdle
    /\ YamlIdle
    /\ ReloadIdle
    /\ KeysIdle

NextYaml ==
    \/ LoadYaml /\ UNCHANGED <<lifeVars, dictVars, reloadVars, keyVars>>

SpecYaml == InitYaml /\ [][NextYaml]_vars

\* start_xpdacq, called once on a definitions directory
InitReload ==
    /\ LifeIdle
    /\ DictIdle
    /\ YamlIdle
    /\ ReloadInit
    /\ KeysIdle

NextReload ==
    \/ StartXpdacq /\ UNCHANGED <<lifeVars, dictVars, yamlVars, keyVars>>

SpecReload == InitReload /\ [][NextReload]_vars

\* regularize_dict_key, called once on a mapping
InitKeys ==
    /\ LifeIdle
    /\ DictIdle
    /\ YamlIdle
    /\ ReloadIdle
    /\ KeysInit

NextKeys ==
    \/ Regularize /\ UNCHANGED <<lifeVars, dictVars, yamlVars, reloadVars>>

SpecKeys == InitKeys /\ [][NextKeys]_vars

TypeOK ==
    /\ flag \in {"absent", "true", "false"}
    /\ homeExists \in BOOLEAN
    /\ homeEntries \subseteq HomeNames
    /\ (~homeExists => homeEntries = {})
    /\ localEntries \subseteq HomeNames
    /\ pending \subseteq localEntries
    /\ ncalls \in 0..MaxCalls
    /\ bto \in BtObjects

(***************************************************************************)
(* Calls, as steps                                                         *)
(***************************************************************************)
\* this step is a call of _start_beamtime
StartCalled == pc = "idle" /\ lastOp' = "start" /\ ncalls' = ncalls + 1

\* this step is a call of _end_beamtime
EndCalled == pc = "idle" /\ lastOp' = "end" /\ ncalls' = ncalls + 1

\* the previous call was a _start_beamtime that returned a beamtime
JustStarted == pc = "idle" /\ lastOp = "start" /\ result = "bt"

(***************************************************************************)
(* Properties                                                              *)
(***************************************************************************)
\* C1 (as stated): a _start_beamtime call that directly follows a successful
\* _start_beamtime fails with InvalidState and changes no directory.
C1_Original ==
    [][(JustStarted /\ StartCalled)
         => (result' = "InvalidState" /\ pc' = "idle" /\ UNCHANGED fsVars)]_vars

\* C1 (amended): a _start_beamtime call that directly follows a successful
\* _start_beamtime passes the flag guard (the flag is true, not false) and
\* fails with ConflictingState on the home directory the first call filled;
\* it changes no directory and leaves the flag true.
C1_SecondStartConflicts ==
    [][(JustStarted /\ StartCalled)
         => (/\ flag = "true"
             /\ result' = "ConflictingState"
             /\ pc' = "idle"
             /\ flag' = "true"
             /\ UNCHANGED fsVars)]_vars

C1_Witness ==
    /\ ncalls = 2
    /\ flag = "true"
    /\ lastOp = "start"
    /\ result = "ConflictingState"

\* C2: once the flag is false it stays false, and every _start_beamtime call
\* made while it is false fails with InvalidState, whatever the state of the
\* home directory, and changes no directory.
C2_FalseFlagIsFinal ==
    [][flag = "false"
         => (/\ flag' = "false"
             /\ StartCalled => (/\ result' = "InvalidState"
                                /\ pc' = "idle"
                                /\ UNCHANGED fsVars))]_vars

C2_Witness ==
    /\ flag = "false"
    /\ lastOp = "start"
    /\ result = "InvalidState"
    /\ ~homeExists

\* C3: a _start_beamtime call made while the flag is not false and the home
\* directory exists and is not empty fails with ConflictingState and leaves
\* the home directory, the required folders, the working directory and the
\* flag as they were.
C3_NonEmptyHomeConflicts ==
    [][(StartCalled /\ flag # "false" /\ homeExists /\ homeEntries # {})
         => (/\ result' = "ConflictingState"
             /\ pc' = "idle"
             /\ UNCHANGED <<homeExists, homeEntries, extDirs, cwd, flag>>)]_vars

C3_Witness ==
    /\ flag = "absent"
    /\ lastOp = "start"
    /\ result = "ConflictingState"
    /\ Cardinality(homeEntries) = 1

\* C4: when _start_beamtime has returned a beamtime, every folder of
\* allfolders exists, the flag is true and the six scan plans of type ct with
\* exposure times 5, 0.1, 1, 10, 30, 60 s were created, in that order; and the
\* flag is never true before all six exist.
C4_SuccessfulStart ==
    /\ JustStarted
         => (/\ \A i \in DOMAIN allfolders : DirExists(allfolders[i])
             /\ flag = "true"
             /\ plans = <<[scan |-> "ct", expo |-> 50], [scan |-> "ct", expo |-> 1],
                          [scan |-> "ct", expo |-> 10], [scan |-> "ct", expo |-> 100],
                          [scan |-> "ct", expo |-> 300], [scan |-> "ct", expo |-> 600]>>)
    /\ flag = "true" => Len(plans) = 6

C4_Witness == JustStarted /\ cwd = "home"

\* C5: an _end_beamtime call made while the home directory exists and is
\* empty fails with AlreadyEnded before the beamtime object is resolved, and
\* changes neither the flag nor any directory.
C5_EmptyHomeAlreadyEnded ==
    [][(EndCalled /\ homeExists /\ homeEntries = {})
         => (/\ result' = "AlreadyEnded"
             /\ pc' = "idle"
             /\ bto' = NoBto
             /\ flag' = flag
             /\ UNCHANGED fsVars)]_vars

C5_Witness ==
    /\ lastOp = "end"
    /\ result = "AlreadyEnded"
    /\ pc = "idle"

\* C6: an _end_beamtime call whose beamtime object lacks a required field
\* exits the process at _load_bt_info: the flag keeps its value, and no
\* directory is renamed, created or removed.
C6_MissingFieldExits ==
    [][(EndCalled /\ bto'.bound /\ ~_load_bt_info(bto'))
         => (/\ result' = "MissingData"
             /\ pc' = "exited"
             /\ flag' = flag
             /\ UNCHANGED fsVars)]_vars

C6_Witness ==
    /\ pc = "exited"
    /\ result = "MissingData"
    /\ flag = "true"
    /\ homeEntries # {}

\* C7 (as stated): once _end_beamtime has reached the renaming of a home
\* directory that was there, every step that ends the operation (a return,
\* an error of the rename, of the creation of the fresh directory or of the
\* transfer, the exit on a decline) leaves the home directory present, and so
\* does every step of the deletion of the local archive.
C7_HomeAlwaysPresent ==
    [][/\ (/\ lastOp = "end"
           /\ pc \in {"tar_move", "tar_makedirs", "tar_remote", "tar_rsync",
                      "confirm", "del_loop", "del_rmtree"}
           /\ homeExists \/ localExists
           /\ pc' \in {"idle", "exited"})
            => homeExists'
       /\ pc' \in {"del_loop", "del_rmtree"} => homeExists']_vars

C9_DeclineLeavesHomeUntouched ==
    (pc = "exited" /\ result = "Cancelled")
        => (homeExists /\ homeEntries = files /\ ~remoteExists)

\* C10 (as stated): at the test of the while loop that follows an empty
\* answer to the error-recovery prompt, _delete_local_archive returns.
C10_Original ==
    [][(pc = "del_loop" /\ msg = "") => (pc' = "idle" /\ result' = "Ended")]_vars

\* C10 (amended): _delete_local_archive returns only when the local archive
\* is gone; while it exists the loop starts another shutil.rmtree pass,
\* whatever the operator answered; and a pass is left early only by the error
\* of a retry that a non-empty answer asked for.
C10_LoopUntilGone ==
    [][/\ (pc = "del_loop" /\ localExists)
            => (pc' = "del_rmtree" /\ pending' = localEntries)
       /\ (pc = "del_loop" /\ ~localExists)
            => (pc' = "idle" /\ result' = "Ended")
       /\ (pc = "del_rmtree" /\ pc' = "idle")
            => (result' = "DeleteFailed" /\ msg' # "")]_vars

C10_Witness ==
    /\ pc = "del_rmtree"
    /\ msg = ""
    /\ pending = localEntries
    /\ localEntries # {}

\* C11: when a removal fails and the operator answers the recovery prompt
\* with nothing, handle_error does not make the failing call again: the path
\* stays where it is, no error ends the operation, and after the pass the
\* loop of _delete_local_archive tests the directory again and, as it is
\* still there, starts another shutil.rmtree pass.
C11_EmptyAnswerLeavesPath ==
    [][/\ (pc = "del_rmtree" /\ errPath' # NoPath /\ msg' = "")
            => (/\ pc' \in {"del_rmtree", "del_loop"}
                /\ result' = result
                /\ localExists'
                /\ localEntries' = localEntries
                /\ errPath' # ArchiveDir => errPath' \in localEntries')
       /\ (pc = "del_loop" /\ errPath = ArchiveDir /\ msg = "")
            => (localExists /\ pc' = "del_rmtree" /\ pending' = localEntries)]_vars

C11_Witness ==
    /\ pc = "del_rmtree"
    /\ msg = ""
    /\ errPath = "userdata"
    /\ "userdata" \in localEntries
    /\ "userdata" \notin pending

\* C18 (as stated): every step that leaves _tar_user_data, by its return or
\* by an error of the change into the root directory, of the rename, of the
\* creation of the home directory, of the creation of the remote directory
\* or of rsync, leaves the process in the home directory.
C18_CwdIsHomeOnExit ==
    [][(/\ pc \in {"tar_chdir", "tar_move", "tar_makedirs", "tar_remote", "tar_rsync"}
        /\ pc' \in {"idle", "confirm"})
         => cwd' = "home"]_vars

\* C20: the deletion of the local archive is entered only with a zero exit
\* status of rsync and an answer y or Y; the local archive loses paths only
\* inside shutil.rmtree; and when _end_beamtime ends at a guard, at an error
\* of _tar_user_data or at a decline, what the home directory held at the call
\* is still in the home directory or in the local archive.
C20_DeletionOnlyAfterConfirmedTransfer ==
    [][/\ pc' \in {"del_loop", "del_rmtree"} => (rc' = 0 /\ conf' \in {"y", "Y"})
       /\ (localExists /\ (~localExists' \/ localEntries' # localEntries))
            => (pc = "del_rmtree" /\ rc = 0 /\ conf \in {"y", "Y"})
       /\ (/\ lastOp' = "end"
           /\ homeExists \/ localExists
           /\ pc' \in {"idle", "exited"}
           /\ result' \in {"AlreadyEnded", "KeyError", "MissingData", "ChdirFailed",
                           "MoveFailed", "MakedirsFailed", "RemoteMakedirsFailed",
                           "RsyncFailed", "Cancelled"})
            => \/ homeExists' /\ homeEntries' = files'
               \/ localExists' /\ localEntries' = files']_vars

C20_Witness ==
    /\ pc = "del_rmtree"
    /\ rc = 0
    /\ conf = "Y"
    /\ localEntries # files

\* the mutating operations of _RedisDictLike
Mutators == {"__setitem__", "__delitem__", "clear", "pop", "popitem", "update", "setdefault"}

\* C12: on a RedisDict and on a RedisChainMap, every call of a mutating
\* operation that succeeds has called flush exactly once, whatever the
\* instance held and whatever the argument was; copy() always ends with
\* NotImplementedError and calls flush not at all.
C12_OneFlushPerMutation ==
    /\ (dOp \in Mutators /\ dRes = "ok") => nflush = 1
    /\ dOp = "copy" => (dRes = "NotImplementedError" /\ nflush = 0)

\* the first layer that holds key k gives its value (ChainMap.__getitem__)
Lookup(maps, k) ==
    LET i == CHOOSE i \in DOMAIN maps :
                 k \in DOMAIN maps[i] /\ \A j \in 1..(i - 1) : k \notin DOMAIN maps[j]
    IN maps[i][k]

\* C13: for every chain of layers, to_yaml followed by from_yaml gives a
\* RedisChainMap with the same layers in the same order, so every key looks
\* up to the value of the first layer that holds it.
C13_RoundTrip ==
    dOp = "to_yaml" =>
        /\ dRes = "ok"
        /\ LET back == from_yaml(ListDoc(dOut.layers), TRUE) IN
             /\ back.res = "ok"
             /\ back.inst.made
             /\ back.inst.layers = dMaps
             /\ \A k \in Keys : Contains("RedisChainMap", dMaps, k) =>
                    Lookup(back.inst.layers, k) = Lookup(dMaps, k)

\* C14: from_yaml of an empty document gives a chain map of zero layers; of
\* a document that is not a list, TypeError and no instance; of a list, the
\* chain of the parsed layers in document order; the file path of the
\* instance is set exactly when the source is not a plain string.
C14_FromYaml ==
    dOp = "from_yaml" =>
        /\ dArg.doc.kind = "none" => (dRes = "ok" /\ dOut.made /\ Len(dOut.layers) = 0)
        /\ dArg.doc.kind \in {"dict", "scalar"} => (dRes = "TypeError" /\ ~dOut.made)
        /\ dArg.doc.kind = "list" =>
              (dRes = "ok" /\ dOut.made /\ dOut.layers = dArg.doc.layers)
        /\ dOut.made => (dOut.filepathSet <=> ~dArg.isStr)

\* the regular files of the definitions directory whose name begins with "bt"
BtFiles(dir) == {e \in dir.entries : startswith(e.name, BtPrefix) /\ e.isfile}

\* C15: start_xpdacq reports "no beamtime found" and returns nothing when the
\* definitions directory is missing or holds no regular file whose name
\* begins with "bt"; loads and returns the beamtime when there is exactly one
\* such file; prints a warning, loads nothing and returns nothing when there
\* are several.  It never changes the flag or the file system.
C15_StartXpdacq ==
    [][sxOut' # sxOut =>
         /\ flag' = flag /\ fsVars' = fsVars /\ yamlDir' = yamlDir
         /\ (~yamlDir.exists \/ BtFiles(yamlDir) = {}) =>
               (sxOut'.res = "ok" /\ sxOut'.printed = "no_beamtime" /\ sxOut'.ret = NoObj)
         /\ (yamlDir.exists /\ Cardinality(BtFiles(yamlDir)) = 1) =>
               (sxOut'.res = "ok" /\ sxOut'.printed = "none" /\ sxOut'.ret.cls = "Beamtime")
         /\ (yamlDir.exists /\ Cardinality(BtFiles(yamlDir)) > 1) =>
               (sxOut'.res = "ok" /\ sxOut'.printed = "warning" /\ sxOut'.ret = NoObj
                /\ sxOut'.scanplans = <<>> /\ sxOut'.samples = <<>>)]_vars

\* the files of a category are reconstructed once each, in the order the
\* side-file records
InRecordedOrder(loaded, fns, order) ==
    /\ Injective(loaded)
    /\ {loaded[i] : i \in DOMAIN loaded} = {fns[i] : i \in DOMAIN fns}
    /\ \A i, j \in DOMAIN loaded :
          i < j => /\ Has(order.values, loaded[i]) /\ Has(order.values, loaded[j])
                   /\ Index(order.values, loaded[i]) < Index(order.values, loaded[j])

\* C16: when load_beamtime runs (bt_bt.yml is the one beamtime file) and the
\* ordering side-file of a category exists, every file in the directory of
\* that category is reconstructed exactly once, in the order the side-file
\* records, whatever order the directory listing comes in.
C16_RecordedOrder ==
    (sxOut.res # "none" /\ yamlDir.exists /\ BtFiles(yamlDir) = {DirEntry(bt_bt_yml, TRUE)}) =>
        /\ yamlDir.scanplan_order.isfile =>
              InRecordedOrder(sxOut.scanplans, yamlDir.scanplan_fns, yamlDir.scanplan_order)
        /\ yamlDir.sample_order.isfile =>
              InRecordedOrder(sxOut.samples, yamlDir.sample_fns, yamlDir.sample_order)

\* C19: load_yaml gives a beamtime, registered under its bt_uid, for a
\* mapping with bt_uid; a sample, linked to known_uids[second element's
\* bt_uid] and registered under its sa_uid, for a list whose first element
\* holds sa_uid; a scan plan, linked the same way and registered under its
\* sp_uid, for any other list of two elements; and ValueError, with
\* known_uids unchanged, for every other content.
C19_LoadYamlDispatch ==
    [][yRes' # "none" =>
         LET d == data'
             isBt == d.kind = "dict" /\ d.m.key = "bt_uid"
             isSa == d.kind = "list" /\ Len(d.elems) >= 2 /\ d.elems[1].key = "sa_uid"
                       /\ d.elems[2].key = "bt_uid"
             isSp == d.kind = "list" /\ Len(d.elems) = 2 /\ d.elems[1].key = "sp_uid"
                       /\ d.elems[2].key = "bt_uid"
             other == \/ d.kind \in {"none", "scalar"}
                      \/ d.kind = "dict" /\ d.m.key # "bt_uid"
                      \/ d.kind = "list" /\ Len(d.elems) # 2
                            /\ (Len(d.elems) = 0 \/ d.elems[1].key # "sa_uid")
         IN /\ isBt => /\ yRes' = "ok" /\ yObj' = Obj("Beamtime", d.m.uid, None)
                        /\ known_uids' = Put(known_uids, d.m.uid, yObj')
            /\ isSa => /\ yRes' = "ok"
                        /\ yObj' = Obj("Sample", d.elems[1].uid, Get(known_uids, d.elems[2].uid))
                        /\ known_uids' = Put(known_uids, d.elems[1].uid, yObj')
            /\ isSp => /\ yRes' = "ok"
                        /\ yObj' = Obj("ScanPlan", d.elems[1].uid, Get(known_uids, d.elems[2].uid))
                        /\ known_uids' = Put(known_uids, d.elems[1].uid, yObj')
            /\ other => (yRes' = "ValueError" /\ known_uids' = known_uids)]_vars

\* the mapping a literal stands for after every key, at every depth, has had
\* each target character replaced
RECURSIVE Expected(_, _, _)
Expected(items, t, r) ==
    [k \in {replace(items[i].k, t, r) : i \in DOMAIN items} |->
       LET v == items[CHOOSE i \in DOMAIN items : replace(items[i].k, t, r) = k].v IN
         IF v.isDict THEN [isDict |-> TRUE, n |-> 0, m |-> Expected(v.items, t, r)]
         ELSE [isDict |-> FALSE, n |-> v.n, m |-> AsMap(NoDict)]]

\* no two keys of one mapping clean to the same key, at any depth
RECURSIVE NoCollision(_, _, _)
NoCollision(items, t, r) ==
    /\ \A i, j \in DOMAIN items :
          replace(items[i].k, t, r) = replace(items[j].k, t, r) => i = j
    /\ \A i \in DOMAIN items : items[i].v.isDict => NoCollision(items[i].v.items, t, r)

\* no key of the mapping, at any depth, holds the character t
RECURSIVE NoTarget(_, _)
NoTarget(m, t) ==
    \A k \in DOMAIN m :
        /\ \A i \in DOMAIN k : k[i] # t
        /\ m[k].isDict => NoTarget(m[k].m, t)

\* C17: after regularize_dict_key(d, t, r) on a nested mapping in which no
\* two keys of one mapping clean to the same key, no key at any depth holds
\* t, every key is the original key with each t replaced by r, and every
\* value is still attached to its renamed key.
C17_KeysRegularized ==
    (regRes # "none" /\ NoCollision(orig_items, target_chr, replace_chr)) =>
        /\ NoTarget(AsMap(input_dict), target_chr)
        /\ AsMap(input_dict) = Expected(orig_items, target_chr, replace_chr)

=============================================================================
